---- MODULE Spec2Model ----
(***************************************************************************)
(* archi-zoom: the SVG view controller (pan by drag, zoom by wheel), the   *)
(* host-event bindings that call into it, and the zoom-region visibility   *)
(* evaluator that listens to its ViewUpdate events.                        *)
(*                                                                         *)
(* f32 values are modelled in exact arithmetic as rationals <<n, d>> with  *)
(* d > 0 in lowest terms.  The host (DOM) is modelled by the values it     *)
(* hands to the code: the SVG root's screen CTM, its client rectangle, its *)
(* viewBox, the bounding boxes of the zoom elements, and the table of      *)
(* callbacks registered on the SVG root.                                   *)
(***************************************************************************)
EXTENDS Integers, Sequences, FiniteSets, TLC

VARIABLES
    owner,            \* the attach site (ArchiZoomContainer) still holds its Rc
    alive,            \* the ArchiZoom and its SvgViewController are not dropped
    target,           \* host: event types with a callback registered on the SVG root
    event_listeners,  \* SvgViewController.event_listeners
    listeners,        \* SvgViewController.listeners
    zoom_elements,    \* ArchiZoom.zoom_elements (the bbox the host reports for each)
    is_pointer_down,  \* SvgViewController.is_pointer_down
    pointer_origin,   \* SvgViewController.pointer_origin
    view_box,         \* host: svg.view_box().base_val()
    ctm,              \* host: svg.get_screen_ctm()
    client,           \* host: svg.get_bounding_client_rect() width and height
    drop_errors,      \* console: "Dropping a registered closure" errors logged
    add_errors,       \* console: "Failed to add event handler" errors logged
    remove_warnings,  \* console: "Failed to remove event handler" warnings logged
    removals,         \* host: calls of removeEventListener on the SVG root
    removes,          \* log of the calls of remove(): the index of the binding
    nEvents,          \* host events delivered so far
    nCtmChanges,      \* changes of the screen CTM so far
    last,             \* what the last delivered host event did
    drag,             \* log of the current undisturbed drag: press and moves
    wheels,           \* log of the wheel deltas handled since attach
    initial_view_box, \* the viewBox at attach
    armFailed         \* a press failed in idle and no press has succeeded since

vars == <<owner, alive, target, event_listeners, listeners, zoom_elements,
          is_pointer_down, pointer_origin, view_box, ctm, client, drop_errors,
          add_errors, remove_warnings, removals, removes,
          nEvents, nCtmChanges, last, drag, wheels, initial_view_box, armFailed>>

-----------------------------------------------------------------------------
(* Bounds *)

MaxEvents == 3

MaxCtmChanges == 1

MaxListeners == 3

MaxRefused == 1

MaxRemoves == 2

-----------------------------------------------------------------------------
(* f32 arithmetic, exact *)

Abs(n) == IF n < 0 THEN -n ELSE n

RECURSIVE Gcd(_, _)
Gcd(a, b) == IF b = 0 THEN a ELSE Gcd(b, a % b)

F32(n, d) ==
    LET s == IF d < 0 THEN -1 ELSE 1
        g == Gcd(Abs(n), Abs(d))
    IN  <<(s * n) \div g, (s * d) \div g>>

Num(n) == <<n, 1>>

FAdd(p, q) == F32(p[1] * q[2] + q[1] * p[2], p[2] * q[2])

FSub(p, q) == F32(p[1] * q[2] - q[1] * p[2], p[2] * q[2])

FMul(p, q) == F32(p[1] * q[1], p[2] * q[2])

FDiv(p, q) == F32(p[1] * q[2], p[2] * q[1])

FNeg(p) == <<-p[1], p[2]>>

FLess(p, q) == p[1] * q[2] < q[1] * p[2]

FLeq(p, q) == p[1] * q[2] <= q[1] * p[2]

FMin(p, q) == IF FLeq(p, q) THEN p ELSE q

FMax(p, q) == IF FLeq(p, q) THEN q ELSE p

Zero == Num(0)

Two == Num(2)

\* Option::None, Err(_), a null from the host
None == [none |-> TRUE]

-----------------------------------------------------------------------------
(* zoom/matrix.rs *)

Point2D_new(x, y) == [x |-> x, y |-> y]

Point2D_matrix_transform(self, matrix) ==
    [x |-> FAdd(FAdd(FMul(self.x, matrix.a), FMul(self.y, matrix.c)), matrix.e),
     y |-> FAdd(FAdd(FMul(self.x, matrix.b), FMul(self.y, matrix.d)), matrix.f)]

Rect_new(top_left, bottom_right) ==
    [top_left |-> top_left, bottom_right |-> bottom_right]

Rect_from_svg(js_rect) ==
    Rect_new(Point2D_new(js_rect.x, js_rect.y),
             Point2D_new(FAdd(js_rect.x, js_rect.width),
                         FAdd(js_rect.y, js_rect.height)))

Rect_matrix_transform(self, matrix) ==
    [top_left |-> Point2D_matrix_transform(self.top_left, matrix),
     bottom_right |-> Point2D_matrix_transform(self.bottom_right, matrix)]

left(self) == self.top_left.x

top(self) == self.top_left.y

right(self) == self.bottom_right.x

bottom(self) == self.bottom_right.y

\* variant: width as right - left
width_flipped(self) == FSub(self.bottom_right.x, self.top_left.x)

width(self) == FSub(self.top_left.x, self.bottom_right.x)

height(self) == FSub(self.top_left.y, self.bottom_right.y)

area(self) == FMul(width(self), height(self))

Matrix2D(a, b, c, d, e, f) ==
    [a |-> Num(a), b |-> Num(b), c |-> Num(c), d |-> Num(d), e |-> Num(e), f |-> Num(f)]

-----------------------------------------------------------------------------
(* Host inputs *)

\* clientX / clientY of pointer, mouse and wheel events and of touches
Positions == {Point2D_new(Num(50), Num(50)), Point2D_new(Num(70), Num(40))}

\* TouchEvent.touches: no touch, or one
TouchLists == {<<>>, <<Point2D_new(Num(70), Num(40))>>}

\* WheelEvent.deltaY
Deltas == {-100, 0, 100}

\* svg.get_screen_ctm(): unavailable, singular, identity, scale 2 and shift
Identity == Matrix2D(1, 0, 0, 1, 0, 0)

CTMs == {None, Matrix2D(0, 0, 0, 0, 0, 0), Identity, Matrix2D(2, 0, 0, 2, 10, 20)}

SvgRect(x, y, w, h) == [x |-> Num(x), y |-> Num(y), width |-> Num(w), height |-> Num(h)]

\* svg.view_box().base_val() at attach
\* event.delta_y() of a wheel event, with one value below -1 / ZOOM_FACTOR
ZoomDeltas == {-400, -100, 0, 100}

InitialViewBoxes == {None, SvgRect(0, 0, 200, 200), SvgRect(10, 20, 400, 200)}

\* svg.get_bounding_client_rect(): width and height, positive
ClientSizes == {[width |-> Num(400), height |-> Num(400)]}

\* get_b_box() of the marked links: a small one, and one far off to the lower right
ZoomElementSets ==
    {<<[bbox |-> SvgRect(25, 25, 150, 150)], [bbox |-> SvgRect(1000, 1000, 50, 50)]>>}

-----------------------------------------------------------------------------
(* zoom/mod.rs *)

VIEW_THRESHOLD == F32(45, 100)

\* The link's own screen CTM is the SVG root's: the links carry no transform.
element_rect(self) ==
    IF self.bbox = None THEN None
    ELSE IF ctm = None THEN None
    ELSE Rect_matrix_transform(Rect_from_svg(self.bbox), ctm)

overlap(a_left, a_right, b_left, b_right) ==
    FSub(FMin(a_right, b_right), FMax(a_left, b_left))

area_percentage(viewport, rect) ==
    LET horizontal_overlap == overlap(left(viewport), right(viewport), left(rect), right(rect))
        vertical_overlap == overlap(top(viewport), bottom(viewport), top(rect), bottom(rect))
        total_area == area(viewport)
        viewable_area == FMul(horizontal_overlap, vertical_overlap)
    IN  FDiv(viewable_area, total_area)

\* the zoom elements for which "in view" is logged
view_update(event) ==
    {i \in DOMAIN zoom_elements :
        LET rect == element_rect(zoom_elements[i])
        IN  /\ rect /= None
            /\ FLeq(VIEW_THRESHOLD, area_percentage(event.viewport, rect))}

-----------------------------------------------------------------------------
(* zoom/svg_view_controller.rs *)

ZOOM_FACTOR == F32(3, 1000)

\* SvgMatrix.inverse(): Err for a singular matrix
inverse(m) ==
    LET det == FSub(FMul(m.a, m.d), FMul(m.b, m.c))
    IN  IF det = Zero THEN None
        ELSE [a |-> FDiv(m.d, det),
              b |-> FNeg(FDiv(m.b, det)),
              c |-> FNeg(FDiv(m.c, det)),
              d |-> FDiv(m.a, det),
              e |-> FDiv(FSub(FMul(m.c, m.f), FMul(m.d, m.e)), det),
              f |-> FDiv(FSub(FMul(m.b, m.e), FMul(m.a, m.f)), det)]

\* the point in user space under the screen CTM svg_matrix, None if there is none
screen_to_user(svg_matrix, position) ==
    IF svg_matrix = None THEN None
    ELSE LET inverted_svg_matrix == inverse(svg_matrix)
         IN  IF inverted_svg_matrix = None THEN None
             ELSE Point2D_matrix_transform(position, inverted_svg_matrix)

\* variant: falls back to the screen position when the CTM cannot be inverted
get_point_or_position(position) ==
    LET point == screen_to_user(ctm, position)
    IN  IF point = None THEN position ELSE point

get_point(position) == screen_to_user(ctm, position)

\* The listeners a caller of register_listener can hand in besides the
\* ArchiZoom evaluator: one that only records the event, one that panics, and
\* one that registers a further listener on the controller when it is called.
Clients == {"recorder", "panicker", "registrar"}

\* RefCell::borrow_mut on the controller while the handler of a move or wheel
\* event holds controller_ref.borrow(): BorrowMutError, a panic.
borrow_mut_in_dispatch == "panic"

\* what happens when dispatch_event calls listener.receive(&event)
receive(listener) ==
    CASE listener = "panicker" -> "panic"
      [] listener = "registrar" -> borrow_mut_in_dispatch
      [] OTHER -> "ok"

\* what dispatch_event hands to the handler's outcome: the event, the listeners
\* registered at the time, those that received it in order (the loop ends at
\* the first listener that panics: nothing catches the panic), and the zoom
\* elements the ArchiZoom listener reports
dispatch_event ==
    LET viewport == Rect_new(Point2D_new(Zero, Zero),
                             Point2D_new(client.width, client.height))
        event == [viewport |-> viewport]
        stops == {i \in DOMAIN listeners : receive(listeners[i]) = "panic"}
        reached == IF stops = {} THEN listeners
                   ELSE SubSeq(listeners, 1, CHOOSE i \in stops : \A j \in stops : i <= j)
    IN  [emitted |-> 1,
         viewport |-> viewport,
         registered |-> listeners,
         received |-> reached,
         panicked |-> stops /= {},
         rects |-> [i \in DOMAIN zoom_elements |-> element_rect(zoom_elements[i])],
         in_view |-> IF \E i \in DOMAIN reached : reached[i] = "ArchiZoom"
                     THEN view_update(event) ELSE {}]

NoDispatch ==
    [emitted |-> 0, viewport |-> None, registered |-> <<>>, received |-> <<>>,
     panicked |-> FALSE, rects |-> <<>>, in_view |-> {}]

\* the outcome of a host event: the method it ran, whether prevent_default was
\* called on it, and what was dispatched
Outcome(event, method, prevented, dispatched) ==
    [type |-> event, ran |-> method, prevented |-> prevented, threw |-> FALSE,
     emitted |-> dispatched.emitted, viewport |-> dispatched.viewport,
     registered |-> dispatched.registered, received |-> dispatched.received,
     panicked |-> dispatched.panicked, rects |-> dispatched.rects,
     in_view |-> dispatched.in_view]

\* variant: arms the drag whether or not the transform succeeds
on_pointer_down_always(position, event) ==
    /\ is_pointer_down' = TRUE
    /\ LET point == get_point(position)
       IN  pointer_origin' = IF point /= None THEN point ELSE pointer_origin
    /\ UNCHANGED view_box
    /\ last' = Outcome(event, "on_pointer_down", FALSE, NoDispatch)

\* variant: a press while dragging is ignored
on_pointer_down_once(position, event) ==
    /\ LET point == get_point(position)
       IN  IF point /= None /\ ~is_pointer_down
           THEN /\ is_pointer_down' = TRUE
                /\ pointer_origin' = point
           ELSE UNCHANGED <<is_pointer_down, pointer_origin>>
    /\ UNCHANGED view_box
    /\ last' = Outcome(event, "on_pointer_down", FALSE, NoDispatch)

on_pointer_down(position, event) ==
    /\ LET point == get_point(position)
       IN  IF point /= None
           THEN /\ is_pointer_down' = TRUE
                /\ pointer_origin' = point
           ELSE UNCHANGED <<is_pointer_down, pointer_origin>>
    /\ UNCHANGED view_box
    /\ last' = Outcome(event, "on_pointer_down", FALSE, NoDispatch)

\* variant: the delta added instead of subtracted
pan_added(point) ==
    LET delta_x == FSub(point.x, pointer_origin.x)
        delta_y == FSub(point.y, pointer_origin.y)
    IN  [view_box EXCEPT !.x = FAdd(@, delta_x), !.y = FAdd(@, delta_y)]

\* the viewBox after a drag move to point
pan(point) ==
    LET delta_x == FSub(point.x, pointer_origin.x)
        delta_y == FSub(point.y, pointer_origin.y)
    IN  [view_box EXCEPT !.x = FSub(@, delta_x), !.y = FSub(@, delta_y)]

\* variant: prevent_default called before is_pointer_down is looked at
on_pointer_move_prevent_first(position, event) ==
    /\ LET point == get_point(position)
       IN  IF is_pointer_down /\ point /= None /\ view_box /= None
           THEN /\ view_box' = pan(point)
                /\ last' = Outcome(event, "on_pointer_move", TRUE, dispatch_event)
           ELSE /\ UNCHANGED view_box
                /\ last' = Outcome(event, "on_pointer_move", TRUE, NoDispatch)
    /\ UNCHANGED <<is_pointer_down, pointer_origin>>

\* variant: the drag origin follows the pointer
on_pointer_move_tracking(position, event) ==
    /\ IF is_pointer_down
       THEN LET point == get_point(position)
            IN  IF point /= None /\ view_box /= None
                THEN /\ view_box' = pan(point)
                     /\ pointer_origin' = point
                     /\ last' = Outcome(event, "on_pointer_move", TRUE, dispatch_event)
                ELSE /\ UNCHANGED <<view_box, pointer_origin>>
                     /\ last' = Outcome(event, "on_pointer_move", TRUE, NoDispatch)
       ELSE /\ UNCHANGED <<view_box, pointer_origin>>
            /\ last' = Outcome(event, "on_pointer_move", FALSE, NoDispatch)
    /\ UNCHANGED is_pointer_down

\* variant: prevent_default called only once the move can pan
on_pointer_move_prevent_late(position, event) ==
    /\ IF is_pointer_down
       THEN LET point == get_point(position)
            IN  IF point /= None /\ view_box /= None
                THEN /\ view_box' = pan(point)
                     /\ last' = Outcome(event, "on_pointer_move", TRUE, dispatch_event)
                ELSE /\ UNCHANGED view_box
                     /\ last' = Outcome(event, "on_pointer_move", FALSE, NoDispatch)
       ELSE /\ UNCHANGED view_box
            /\ last' = Outcome(event, "on_pointer_move", FALSE, NoDispatch)
    /\ UNCHANGED <<is_pointer_down, pointer_origin>>

on_pointer_move(position, event) ==
    /\ IF is_pointer_down
       THEN LET point == get_point(position)
            IN  IF point /= None /\ view_box /= None
                THEN /\ view_box' = pan(point)
                     /\ last' = Outcome(event, "on_pointer_move", TRUE, dispatch_event)
                ELSE /\ UNCHANGED view_box
                     /\ last' = Outcome(event, "on_pointer_move", TRUE, NoDispatch)
       ELSE /\ UNCHANGED view_box
            /\ last' = Outcome(event, "on_pointer_move", FALSE, NoDispatch)
    /\ UNCHANGED <<is_pointer_down, pointer_origin>>

on_pointer_up(event) ==
    /\ is_pointer_down' = FALSE
    /\ UNCHANGED <<pointer_origin, view_box>>
    /\ last' = Outcome(event, "on_pointer_up", FALSE, NoDispatch)

\* variant: delta_width taken from the height
zoom_by_height(delta_y, position) ==
    LET delta_width == FMul(view_box.height, FMul(delta_y, ZOOM_FACTOR))
        delta_height == FMul(view_box.height, FMul(delta_y, ZOOM_FACTOR))
    IN  [x |-> FSub(view_box.x, FDiv(delta_width, Two)),
         y |-> FSub(view_box.y, FDiv(delta_height, Two)),
         width |-> FAdd(view_box.width, delta_width),
         height |-> FAdd(view_box.height, delta_height)]

\* variant: the zoom anchored at the cursor
zoom_at_cursor(delta_y, position) ==
    LET delta_width == FMul(view_box.width, FMul(delta_y, ZOOM_FACTOR))
        delta_height == FMul(view_box.height, FMul(delta_y, ZOOM_FACTOR))
    IN  [x |-> FSub(view_box.x, FMul(delta_width, FDiv(position.x, client.width))),
         y |-> FSub(view_box.y, FMul(delta_height, FDiv(position.y, client.height))),
         width |-> FAdd(view_box.width, delta_width),
         height |-> FAdd(view_box.height, delta_height)]

\* variant: the width and height set to the deltas instead of grown by them
zoom_to_delta(delta_y, position) ==
    LET delta_width == FMul(view_box.width, FMul(delta_y, ZOOM_FACTOR))
        delta_height == FMul(view_box.height, FMul(delta_y, ZOOM_FACTOR))
    IN  [x |-> FSub(view_box.x, FDiv(delta_width, Two)),
         y |-> FSub(view_box.y, FDiv(delta_height, Two)),
         width |-> delta_width,
         height |-> delta_height]

\* variant: the width and height kept at one user unit or more
zoom_clamped(delta_y, position) ==
    LET delta_width == FMul(view_box.width, FMul(delta_y, ZOOM_FACTOR))
        delta_height == FMul(view_box.height, FMul(delta_y, ZOOM_FACTOR))
    IN  [x |-> FSub(view_box.x, FDiv(delta_width, Two)),
         y |-> FSub(view_box.y, FDiv(delta_height, Two)),
         width |-> FMax(FAdd(view_box.width, delta_width), Num(1)),
         height |-> FMax(FAdd(view_box.height, delta_height), Num(1))]

\* the viewBox after a wheel step
zoom(delta_y, position) ==
    LET delta_width == FMul(view_box.width, FMul(delta_y, ZOOM_FACTOR))
        delta_height == FMul(view_box.height, FMul(delta_y, ZOOM_FACTOR))
    IN  [x |-> FSub(view_box.x, FDiv(delta_width, Two)),
         y |-> FSub(view_box.y, FDiv(delta_height, Two)),
         width |-> FAdd(view_box.width, delta_width),
         height |-> FAdd(view_box.height, delta_height)]

\* variant: the event dispatched whether or not the viewBox value is there
on_scroll_always_dispatch(delta_y, position, event) ==
    /\ IF view_box /= None
       THEN view_box' = zoom(delta_y, position)
       ELSE UNCHANGED view_box
    /\ last' = Outcome(event, "on_scroll", TRUE, dispatch_event)
    /\ UNCHANGED <<is_pointer_down, pointer_origin>>

on_scroll(delta_y, position, event) ==
    /\ IF view_box /= None
       THEN /\ view_box' = zoom(delta_y, position)
            /\ last' = Outcome(event, "on_scroll", TRUE, dispatch_event)
       ELSE /\ UNCHANGED view_box
            /\ last' = Outcome(event, "on_scroll", TRUE, NoDispatch)
    /\ UNCHANGED <<is_pointer_down, pointer_origin>>

-----------------------------------------------------------------------------
(* Bindings: js_utils.rs, and the handlers installed by get_drag_events and *)
(* register_scroll_events                                                   *)

DownTypes == {"pointerdown", "mousedown", "touchstart"}

MoveTypes == {"pointermove", "mousemove", "touchmove"}

UpTypes == {"pointerup", "pointerleave", "mouseup", "mouseleave", "touchend"}

TouchTypes == {"touchstart", "touchmove", "touchend"}

\* variant: the mouse names bound as well when pointer events are supported
get_drag_events_with_mouse(pointer_supported) ==
    IF pointer_supported
    THEN <<"pointerdown", "pointermove", "pointerup", "pointerleave",
           "mousedown", "mousemove", "mouseup", "mouseleave">>
    ELSE <<"mousedown", "mousemove", "mouseup", "mouseleave",
           "touchstart", "touchmove", "touchend">>

\* the event names bound, in order, given the result of PointerEvent::new
get_drag_events(pointer_supported) ==
    IF pointer_supported
    THEN <<"pointerdown", "pointermove", "pointerup", "pointerleave">>
    ELSE <<"mousedown", "mousemove", "mouseup", "mouseleave",
           "touchstart", "touchmove", "touchend">>

register_scroll_events == <<"wheel">>

\* the binding made for one event name: it owns the closure
SelfClosureImpl(type) == [type |-> type, closure |-> "Some"]

\* variant: the host is asked to remove the callback on every call
SelfClosureImpl_remove_unguarded(self, host_ok) ==
    [binding |-> [self EXCEPT !.closure = "None"],
     called |-> TRUE,
     detached |-> host_ok,
     warned |-> ~host_ok]

\* remove(): the binding afterwards, whether the host was asked to remove the
\* callback, whether it did, and whether a warning was logged
SelfClosureImpl_remove(self, host_ok) ==
    [binding |-> [self EXCEPT !.closure = "None"],
     called |-> self.closure = "Some",
     detached |-> self.closure = "Some" /\ host_ok,
     warned |-> self.closure = "Some" /\ ~host_ok]

\* variant: the error logged for every binding that is dropped
SelfClosureImpl_drop_always(self) == 1

\* the errors logged when a binding is dropped
SelfClosureImpl_drop(self) == IF self.closure = "Some" THEN 1 ELSE 0

touch_position(touches) ==
    IF Len(touches) > 0 THEN touches[1] ELSE Point2D_new(Zero, Zero)

\* the payloads the host can deliver for an event name
Payloads(type) == IF type \in TouchTypes THEN TouchLists ELSE Positions

\* the position a press or move handler passes to the controller
position_of(type, payload) ==
    IF type \in TouchTypes THEN touch_position(payload) ELSE payload

\* variant: the handlers capture a clone of the Rc, a strong handle
weak_ref_cloned == FALSE

\* The handlers capture Rc::downgrade(controller_ref), a weak handle.
weak_ref_downgraded == TRUE

\* weak_ref.upgrade() succeeds
upgrade == alive

\* the Rust closure behind the callback registered for an event name still exists
closure_live(type) ==
    \E i \in DOMAIN event_listeners :
        event_listeners[i].type = type /\ event_listeners[i].closure = "Some"

\* the callback body runs: the closure exists and its weak handle upgrades
runs(type) == closure_live(type) /\ upgrade

controller == <<is_pointer_down, pointer_origin, view_box>>

attachment == <<owner, alive, target, event_listeners, listeners, zoom_elements,
                drop_errors, add_errors, remove_warnings, removals, removes,
                initial_view_box, client>>

Silent(type) ==
    [type |-> type, ran |-> "none", prevented |-> FALSE, threw |-> FALSE,
     emitted |-> 0, viewport |-> None, registered |-> <<>>, received |-> <<>>,
     panicked |-> FALSE, rects |-> <<>>, in_view |-> {}]

\* the closure add_svg_event installs: a no-op once the controller is gone
add_svg_event(event_type, callback) ==
    IF upgrade THEN callback
    ELSE /\ last' = Silent(event_type)
         /\ UNCHANGED controller

\* The host calls the callback registered for an event name.  Calling a
\* callback whose Rust closure was dropped throws in the host.  A panic is a
\* trap of the wasm instance: the run is followed up to the trap and no further.
Deliver(type, callback) ==
    /\ type \in target
    /\ ~last.panicked
    /\ nEvents < MaxEvents
    /\ nEvents' = nEvents + 1
    /\ IF closure_live(type)
       THEN add_svg_event(type, callback)
       ELSE /\ last' = [Silent(type) EXCEPT !.threw = TRUE]
            /\ UNCHANGED controller
    /\ UNCHANGED <<attachment, ctm, nCtmChanges>>

-----------------------------------------------------------------------------
(* The state after ArchiZoom::new *)

Init ==
    /\ owner = TRUE
    /\ alive = TRUE
    /\ \E pointer_supported \in BOOLEAN :
          LET types == get_drag_events(pointer_supported) \o register_scroll_events
          IN  /\ event_listeners = [i \in DOMAIN types |-> SelfClosureImpl(types[i])]
              /\ target = {types[i] : i \in DOMAIN types}
    /\ listeners = <<"ArchiZoom">>
    /\ zoom_elements \in ZoomElementSets
    /\ is_pointer_down = FALSE
    /\ pointer_origin = Point2D_new(Zero, Zero)
    /\ view_box \in InitialViewBoxes
    /\ initial_view_box = view_box
    /\ ctm \in {None, Identity}
    /\ client \in ClientSizes
    /\ drop_errors = 0
    /\ add_errors = 0
    /\ remove_warnings = 0
    /\ removals = 0
    /\ removes = <<>>
    /\ nEvents = 0
    /\ nCtmChanges = 0
    /\ last = Silent("none")
    /\ drag = None
    /\ wheels = <<>>
    /\ armFailed = FALSE

\* variant: a refused install is returned to the caller as an Err
new_event_listener_failing(type, host_accepts) ==
    [result |-> IF host_accepts THEN "Ok" ELSE "Err",
     binding |-> SelfClosureImpl(type),
     bound |-> host_accepts,
     logged |-> 0]

\* svg.new_event_listener(event_type, closure): the binding is made and handed
\* back whether or not the host accepts the callback; a refusal is logged.
new_event_listener(type, host_accepts) ==
    [result |-> "Ok",
     binding |-> SelfClosureImpl(type),
     bound |-> host_accepts,
     logged |-> IF host_accepts THEN 0 ELSE 1]

\* The controller, the bindings and the host's callback table after
\* ArchiZoom::new, on a host where the PointerEvent probe gave
\* pointer_supported and the host refuses the installs for the names in
\* refused.  An Err from an install is propagated by `?`: no controller is
\* returned, and the bindings made so far are dropped with it.
AfterNew(pointer_supported, refused) ==
    LET types == get_drag_events(pointer_supported) \o register_scroll_events
        made == [i \in DOMAIN types |->
                    new_event_listener(types[i], types[i] \notin refused)]
        errs == {i \in DOMAIN types : made[i].result = "Err"}
        n == IF errs = {} THEN Len(types)
             ELSE (CHOOSE i \in errs : \A j \in errs : i <= j) - 1
    IN  /\ owner = (errs = {})
        /\ alive = (errs = {})
        /\ event_listeners = IF errs = {} THEN [i \in DOMAIN types |-> made[i].binding]
                             ELSE <<>>
        /\ target = {types[i] : i \in {j \in 1..n : made[j].bound}}
        /\ listeners = IF errs = {} THEN <<"ArchiZoom">> ELSE <<>>
        /\ add_errors = Cardinality({i \in 1..n : made[i].logged = 1})
        /\ drop_errors = IF errs = {} THEN 0 ELSE n
        /\ remove_warnings = 0
        /\ removals = 0
        /\ removes = <<>>
        /\ is_pointer_down = FALSE
        /\ pointer_origin = Point2D_new(Zero, Zero)
        /\ nEvents = 0
        /\ nCtmChanges = 0
        /\ last = Silent("none")
        /\ drag = None
        /\ wheels = <<>>
        /\ armFailed = FALSE

-----------------------------------------------------------------------------
(* Host events *)

PointerDown(type, payload) ==
    LET position == position_of(type, payload) IN
    /\ Deliver(type, on_pointer_down(position, type))
    /\ armFailed' = IF ~runs(type) THEN armFailed
                    ELSE IF get_point(position) /= None THEN FALSE
                    ELSE IF ~is_pointer_down THEN TRUE ELSE armFailed
    /\ drag' = IF runs(type) /\ get_point(position) /= None /\ view_box /= None
               THEN [start |-> view_box, ctm |-> ctm, p0 |-> position, moves |-> <<>>]
               ELSE drag
    /\ UNCHANGED wheels

PointerMove(type, payload) ==
    LET position == position_of(type, payload) IN
    /\ Deliver(type, on_pointer_move(position, type))
    /\ drag' = IF runs(type) /\ drag /= None
               THEN [drag EXCEPT !.moves = Append(@, position)]
               ELSE drag
    /\ UNCHANGED <<wheels, armFailed>>

PointerUp(type) ==
    /\ Deliver(type, on_pointer_up(type))
    /\ drag' = IF runs(type) THEN None ELSE drag
    /\ UNCHANGED <<wheels, armFailed>>

Scroll(delta_y, position) ==
    /\ Deliver("wheel", on_scroll(Num(delta_y), position, "wheel"))
    /\ wheels' = IF runs("wheel") /\ view_box /= None
                 THEN Append(wheels, delta_y) ELSE wheels
    /\ drag' = IF runs("wheel") THEN None ELSE drag
    /\ UNCHANGED armFailed

\* The host lays the page out again: the screen CTM of the SVG root changes.
CtmChange(m) ==
    /\ nEvents < MaxEvents
    /\ nCtmChanges < MaxCtmChanges
    /\ nCtmChanges' = nCtmChanges + 1
    /\ m /= ctm
    /\ ctm' = m
    /\ drag' = None
    /\ UNCHANGED <<attachment, controller, nEvents, last, wheels, armFailed>>

\* The attach site lets go of its handle.  With only weak handles left the
\* ArchiZoom and the controller are dropped, and with them the listeners and
\* the bindings; nothing removes the callbacks from the SVG root.
Drop ==
    /\ owner
    /\ owner' = FALSE
    /\ IF weak_ref_downgraded
       THEN /\ alive' = FALSE
            /\ listeners' = <<>>
            /\ event_listeners' = <<>>
            /\ drop_errors' = drop_errors + Cardinality(
                  {i \in DOMAIN event_listeners :
                      SelfClosureImpl_drop(event_listeners[i]) = 1})
       ELSE UNCHANGED <<alive, listeners, event_listeners, drop_errors>>
    /\ drag' = None
    /\ UNCHANGED <<target, zoom_elements, initial_view_box, client, controller,
                   add_errors, remove_warnings, removals, removes,
                   ctm, nEvents, nCtmChanges, last, wheels, armFailed>>

\* A caller holding the controller registers one more listener, between events.
RegisterListener(listener) ==
    /\ alive
    /\ ~last.panicked
    /\ Len(listeners) < MaxListeners
    /\ \A i \in DOMAIN listeners : listeners[i] /= listener
    /\ listeners' = Append(listeners, listener)
    /\ UNCHANGED <<owner, alive, target, event_listeners, zoom_elements, drop_errors,
                   add_errors, remove_warnings, removals, removes,
                   initial_view_box, client, controller, ctm, nEvents, nCtmChanges, last, drag, wheels, armFailed>>

\* remove() is called on the i-th binding of the controller; host_ok is
\* whether the host's removeEventListener succeeds.
Remove(i, host_ok) ==
    /\ alive
    /\ ~last.panicked
    /\ i \in DOMAIN event_listeners
    /\ Len(removes) < MaxRemoves
    /\ removes' = Append(removes, i)
    /\ LET removed == SelfClosureImpl_remove(event_listeners[i], host_ok)
       IN  /\ event_listeners' = [event_listeners EXCEPT ![i] = removed.binding]
           /\ removals' = removals + (IF removed.called THEN 1 ELSE 0)
           /\ target' = IF removed.detached
                        THEN target \ {event_listeners[i].type} ELSE target
           /\ remove_warnings' = remove_warnings + (IF removed.warned THEN 1 ELSE 0)
    /\ UNCHANGED <<owner, alive, listeners, zoom_elements, drop_errors, add_errors,
                   initial_view_box, client, controller, ctm, nEvents, nCtmChanges,
                   last, drag, wheels, armFailed>>

Next ==
    \/ \E type \in DownTypes : \E payload \in Payloads(type) : PointerDown(type, payload)
    \/ \E type \in MoveTypes : \E payload \in Payloads(type) : PointerMove(type, payload)
    \/ \E type \in UpTypes : PointerUp(type)
    \/ \E delta_y \in Deltas : \E position \in Positions : Scroll(delta_y, position)
    \/ \E m \in CTMs : CtmChange(m)
    \/ Drop

Spec == Init /\ [][Next]_vars

\* The listener registry: the controller after attach, with callers that
\* register further listeners.
InitListeners ==
    /\ AfterNew(TRUE, {})
    /\ zoom_elements \in ZoomElementSets
    /\ view_box \in {None, SvgRect(0, 0, 200, 200)}
    /\ initial_view_box = view_box
    /\ ctm = Identity
    /\ client \in ClientSizes

NextListeners ==
    \/ \E listener \in Clients : RegisterListener(listener)
    \/ \E type \in DownTypes : \E payload \in Payloads(type) : PointerDown(type, payload)
    \/ \E type \in MoveTypes : \E payload \in Payloads(type) : PointerMove(type, payload)
    \/ \E type \in UpTypes : PointerUp(type)
    \/ \E delta_y \in Deltas : \E position \in Positions : Scroll(delta_y, position)

SpecListeners == InitListeners /\ [][NextListeners]_vars

\* the sets of event names whose install the host may refuse
Refusals(pointer_supported) ==
    LET types == get_drag_events(pointer_supported) \o register_scroll_events
    IN  {refused \in SUBSET {types[i] : i \in DOMAIN types} :
            Cardinality(refused) <= MaxRefused}

\* Attach on either kind of host, with installs the host refuses, and the
\* events the host then delivers.
InitAttach ==
    /\ \E pointer_supported \in BOOLEAN :
          \E refused \in Refusals(pointer_supported) :
             AfterNew(pointer_supported, refused)
    /\ zoom_elements \in ZoomElementSets
    /\ view_box = SvgRect(0, 0, 200, 200)
    /\ initial_view_box = view_box
    /\ ctm = Identity
    /\ client \in ClientSizes

NextAttach ==
    \/ \E type \in DownTypes : \E payload \in Payloads(type) : PointerDown(type, payload)
    \/ \E type \in MoveTypes : \E payload \in Payloads(type) : PointerMove(type, payload)
    \/ \E type \in UpTypes : PointerUp(type)
    \/ \E delta_y \in Deltas : \E position \in Positions : Scroll(delta_y, position)

SpecAttach == InitAttach /\ [][NextAttach]_vars

\* The bindings of one controller: remove() called on them, the events the
\* host delivers before and after, and the drop of the controller.
InitRemove ==
    /\ AfterNew(TRUE, {})
    /\ zoom_elements \in ZoomElementSets
    /\ view_box = SvgRect(0, 0, 200, 200)
    /\ initial_view_box = view_box
    /\ ctm = Identity
    /\ client \in ClientSizes

NextRemove ==
    \/ \E i \in 1..Len(event_listeners) : \E host_ok \in BOOLEAN : Remove(i, host_ok)
    \/ \E type \in DownTypes : \E payload \in Payloads(type) : PointerDown(type, payload)
    \/ Drop

SpecRemove == InitRemove /\ [][NextRemove]_vars

\* Pan and zoom on an SVG that has a viewBox, with wheel deltas on both sides
\* of -1 / ZOOM_FACTOR.
InitZoom ==
    /\ AfterNew(TRUE, {})
    /\ zoom_elements \in ZoomElementSets
    /\ view_box \in InitialViewBoxes \ {None}
    /\ initial_view_box = view_box
    /\ ctm = Identity
    /\ client \in ClientSizes

NextZoom ==
    \/ \E type \in DownTypes : \E payload \in Payloads(type) : PointerDown(type, payload)
    \/ \E type \in MoveTypes : \E payload \in Payloads(type) : PointerMove(type, payload)
    \/ \E type \in UpTypes : PointerUp(type)
    \/ \E delta_y \in ZoomDeltas : \E position \in Positions : Scroll(delta_y, position)

SpecZoom == InitZoom /\ [][NextZoom]_vars

-----------------------------------------------------------------------------
(* Properties *)

\* this step is the delivery of one host event
EventStep == nEvents' = nEvents + 1

\* the screen CTM exists and has a non-zero determinant
CtmUsable(m) == m /= None /\ FMul(m.a, m.d) /= FMul(m.b, m.c)

\* C1: is_pointer_down is false at attach; an event handled by the live
\* controller sets it to true exactly if it is a press whose screen-to-user
\* transform succeeds, to false exactly if it is a release or a leave
\* (pointerup, pointerleave, mouseup, mouseleave, touchend), and every other
\* event leaves it as it was.
C1_PointerDownFollowsPressAndRelease ==
    /\ ~is_pointer_down
    /\ [][(EventStep /\ alive) =>
            is_pointer_down' =
                IF last'.type \in DownTypes /\ CtmUsable(ctm) THEN TRUE
                ELSE IF last'.type \in UpTypes THEN FALSE
                ELSE is_pointer_down]_vars

\* a release has just ended a drag that a successful press had armed
C1_Witness ==
    /\ last.type \in UpTypes
    /\ last.ran = "on_pointer_up"
    /\ ~is_pointer_down
    /\ pointer_origin /= Point2D_new(Zero, Zero)

\* C2: once the controller is dropped, no callback of its bindings is still
\* registered on the SVG root.
C2_TeardownRemovesBindings == ~alive => target = {}

RECURSIVE SumOfDeltas(_, _, _)
\* the sum over the moves of (user point of the press - user point of the move)
SumOfDeltas(m, p0, moves) ==
    IF moves = <<>> THEN Point2D_new(Zero, Zero)
    ELSE LET rest == SumOfDeltas(m, p0, Tail(moves))
             u0 == screen_to_user(m, p0)
             u == screen_to_user(m, Head(moves))
         IN  Point2D_new(FAdd(rest.x, FSub(u0.x, u.x)), FAdd(rest.y, FSub(u0.y, u.y)))

\* C4 (amended): during a drag (a successful press at p0, then moves at
\* p1..pn, nothing else, the screen CTM fixed) each move at pi shifts the
\* viewBox (x, y) by screenToUser(p0) - screenToUser(pi), so that the total
\* change since the press is the sum of these over the moves; width and
\* height are unchanged.
C4_DragTranslationIsSumOfDeltas ==
    drag /= None =>
        LET total == SumOfDeltas(drag.ctm, drag.p0, drag.moves)
        IN  /\ view_box.x = FAdd(drag.start.x, total.x)
            /\ view_box.y = FAdd(drag.start.y, total.y)
            /\ view_box.width = drag.start.width
            /\ view_box.height = drag.start.height

\* a drag of two moves, neither at the press point
C4_Witness ==
    /\ drag /= None
    /\ Len(drag.moves) = 2
    /\ \A i \in 1..2 : drag.moves[i] /= drag.p0

\* C4 as stated: the total change of the viewBox (x, y) since the press is
\* screenToUser(p0) - screenToUser(pn), pn the last move.
C4_DragTranslationIsLastDelta ==
    (drag /= None /\ drag.moves /= <<>>) =>
        LET u0 == screen_to_user(drag.ctm, drag.p0)
            un == screen_to_user(drag.ctm, drag.moves[Len(drag.moves)])
        IN  /\ FSub(view_box.x, drag.start.x) = FSub(u0.x, un.x)
            /\ FSub(view_box.y, drag.start.y) = FSub(u0.y, un.y)
            /\ view_box.width = drag.start.width
            /\ view_box.height = drag.start.height

-----------------------------------------------------------------------------
(* The visibility evaluator on its own: the inputs of view_update drawn from *)
(* bounded sets, and wheel events to make the controller dispatch            *)

CovBBoxes ==
    {None,
     SvgRect(100, 100, 200, 200),    \* inside the viewport
     SvgRect(50, 50, 300, 300),      \* inside, larger
     SvgRect(-50, -50, 500, 500),    \* around the viewport
     SvgRect(300, 300, 200, 200),    \* across the lower right corner
     SvgRect(400, 0, 100, 400),      \* touching the right edge
     SvgRect(500, 100, 100, 100),    \* off to the right
     SvgRect(1000, 1000, 50, 50)}    \* off to the lower right

CovClientSizes ==
    {[width |-> Num(400), height |-> Num(400)], [width |-> Num(300), height |-> Num(200)]}

InitCov ==
    /\ owner = TRUE
    /\ alive = TRUE
    /\ LET types == get_drag_events(TRUE) \o register_scroll_events
       IN  /\ event_listeners = [i \in DOMAIN types |-> SelfClosureImpl(types[i])]
           /\ target = {types[i] : i \in DOMAIN types}
    /\ listeners = <<"ArchiZoom">>
    /\ zoom_elements \in {<<[bbox |-> a], [bbox |-> b]>> : a, b \in CovBBoxes}
    /\ is_pointer_down = FALSE
    /\ pointer_origin = Point2D_new(Zero, Zero)
    /\ view_box = SvgRect(0, 0, 200, 200)
    /\ initial_view_box = view_box
    /\ ctm \in CTMs
    /\ client \in CovClientSizes
    /\ drop_errors = 0
    /\ add_errors = 0
    /\ remove_warnings = 0
    /\ removals = 0
    /\ removes = <<>>
    /\ nEvents = 0
    /\ nCtmChanges = 0
    /\ last = Silent("none")
    /\ drag = None
    /\ wheels = <<>>
    /\ armFailed = FALSE

NextCov == \E delta_y \in Deltas : \E position \in Positions : Scroll(delta_y, position)

SpecCov == InitCov /\ [][NextCov]_vars

WellFormed(r) == FLess(left(r), right(r)) /\ FLess(top(r), bottom(r))

\* the rectangles have no point in common
Disjoint(v, r) ==
    \/ FLess(right(r), left(v))
    \/ FLess(right(v), left(r))
    \/ FLess(bottom(r), top(v))
    \/ FLess(bottom(v), top(r))

\* the area of a well-formed rectangle
TrueArea(r) == FMul(FSub(right(r), left(r)), FSub(bottom(r), top(r)))

\* the area of the intersection of two well-formed rectangles
IntersectionArea(v, r) ==
    LET w == FSub(FMin(right(v), right(r)), FMax(left(v), left(r)))
        h == FSub(FMin(bottom(v), bottom(r)), FMax(top(v), top(r)))
    IN  IF FLess(w, Zero) \/ FLess(h, Zero) THEN Zero ELSE FMul(w, h)

\* C5: after a ViewUpdate, for every zoom element whose screen rectangle is
\* disjoint from the viewport, the coverage computed is negative and the
\* element is not reported in view.
C5_DisjointRegionNotInView ==
    last.emitted = 1 =>
        \A i \in DOMAIN last.rects :
            (last.rects[i] /= None /\ Disjoint(last.viewport, last.rects[i])) =>
                /\ FLess(area_percentage(last.viewport, last.rects[i]), Zero)
                /\ i \notin last.in_view

\* C6: after a ViewUpdate, for a well-formed viewport V and every zoom
\* element whose screen rectangle R is well-formed and meets V, the coverage
\* computed is area(V /\ R) / area(V), lies in [0, 1], and the element is
\* reported in view exactly if that ratio is at least 0.45.
C6_CoverageIsIntersectionRatio ==
    last.emitted = 1 =>
        \A i \in DOMAIN last.rects :
            LET v == last.viewport
                r == last.rects[i]
            IN  (r /= None /\ WellFormed(v) /\ WellFormed(r) /\ ~Disjoint(v, r)) =>
                    LET ratio == FDiv(IntersectionArea(v, r), TrueArea(v))
                    IN  /\ area_percentage(v, r) = ratio
                        /\ FLeq(Zero, ratio)
                        /\ FLeq(ratio, Num(1))
                        /\ (i \in last.in_view) <=> FLeq(F32(45, 100), ratio)

\* the two regions of the 400 x 400 scenario: coverage 1/4, not reported, and
\* coverage 9/16, reported
C6_Witness ==
    /\ last.emitted = 1
    /\ last.viewport = Rect_new(Point2D_new(Zero, Zero), Point2D_new(Num(400), Num(400)))
    /\ last.rects[1] = Rect_new(Point2D_new(Num(100), Num(100)), Point2D_new(Num(300), Num(300)))
    /\ last.rects[2] = Rect_new(Point2D_new(Num(50), Num(50)), Point2D_new(Num(350), Num(350)))
    /\ area_percentage(last.viewport, last.rects[1]) = F32(1, 4)
    /\ area_percentage(last.viewport, last.rects[2]) = F32(9, 16)
    /\ last.in_view = {2}

RECURSIVE ZoomProduct(_)
\* the product of (1 + 0.003 d) over the deltas
ZoomProduct(deltas) ==
    IF deltas = <<>> THEN Num(1)
    ELSE FMul(FAdd(Num(1), FMul(F32(3, 1000), Num(Head(deltas)))),
              ZoomProduct(Tail(deltas)))

\* C7: the width and the height of the viewBox are their values at attach
\* times the product of (1 + 0.003 d) over the wheel deltas handled since,
\* whatever else was handled in between; the product does not depend on the
\* order of the deltas.
C7_ZoomIsMultiplicative ==
    view_box /= None =>
        /\ view_box.width = FMul(initial_view_box.width, ZoomProduct(wheels))
        /\ view_box.height = FMul(initial_view_box.height, ZoomProduct(wheels))

\* two different non-zero wheel deltas handled on a viewBox that is not square
C7_Witness ==
    /\ view_box /= None
    /\ Len(wheels) >= 2
    /\ wheels[1] /= 0 /\ wheels[2] /= 0 /\ wheels[1] /= wheels[2]
    /\ initial_view_box.width /= initial_view_box.height
    /\ view_box.width /= initial_view_box.width

Center(vb) ==
    Point2D_new(FAdd(vb.x, FDiv(vb.width, Two)), FAdd(vb.y, FDiv(vb.height, Two)))

\* the viewBox of the same center, scaled by 1 + 0.003 d
ScaledAboutCenter(vb, d) ==
    LET k == FAdd(Num(1), FMul(F32(3, 1000), Num(d)))
        w == FMul(vb.width, k)
        h == FMul(vb.height, k)
    IN  [x |-> FSub(Center(vb).x, FDiv(w, Two)),
         y |-> FSub(Center(vb).y, FDiv(h, Two)),
         width |-> w,
         height |-> h]

\* C8: a wheel event of delta d leaves the center of the viewBox where it
\* was, and the new viewBox is the old one scaled about that center by
\* 1 + 0.003 d, whatever the cursor position of the event.
C8_ZoomPreservesCenter ==
    [][(EventStep /\ last'.ran = "on_scroll" /\ view_box /= None) =>
        /\ Center(view_box') = Center(view_box)
        /\ view_box' = ScaledAboutCenter(view_box, wheels'[Len(wheels')])]_vars

\* a wheel event has just changed the size of the viewBox
C8_Witness ==
    /\ last.ran = "on_scroll"
    /\ last.emitted = 1
    /\ wheels /= <<>>
    /\ wheels[Len(wheels)] /= 0
    /\ view_box.width /= initial_view_box.width

\* C9: a press handled in idle while the screen CTM is unavailable or
\* singular leaves is_pointer_down false and pointer_origin as it was; from
\* then until a press succeeds, a move leaves the viewBox as it was and emits
\* no ViewUpdate.
C9_FailedPressDoesNotArm ==
    [][/\ (EventStep /\ alive /\ last'.type \in DownTypes
             /\ ~is_pointer_down /\ ~CtmUsable(ctm)) =>
            /\ ~is_pointer_down'
            /\ pointer_origin' = pointer_origin
            /\ armFailed'
       /\ (EventStep /\ armFailed /\ last'.type \in MoveTypes) =>
            /\ view_box' = view_box
            /\ last'.emitted = 0
            /\ last'.received = <<>>]_vars

\* a move handled after a failed press, under a CTM that is usable again
C9_Witness ==
    /\ armFailed
    /\ last.type \in MoveTypes
    /\ last.ran = "on_pointer_move"
    /\ CtmUsable(ctm)
    /\ view_box /= None

\* C10: a move handled while is_pointer_down is false changes neither the
\* viewBox nor the controller, does not call prevent_default and delivers no
\* ViewUpdate to any listener.
C10_MoveInIdleIsNoOp ==
    [][(EventStep /\ last'.type \in MoveTypes /\ ~is_pointer_down) =>
        /\ UNCHANGED <<is_pointer_down, pointer_origin, view_box, listeners,
                       event_listeners, target>>
        /\ ~last'.prevented
        /\ last'.emitted = 0
        /\ last'.received = <<>>]_vars

\* a move handled in idle by the live controller, after a drag that panned
C10_Witness ==
    /\ alive
    /\ last.type \in MoveTypes
    /\ last.ran = "on_pointer_move"
    /\ ~is_pointer_down
    /\ ~last.prevented
    /\ view_box /= initial_view_box

\* this step is a host event that the controller handled
Handled == EventStep /\ last'.ran /= "none"

C12_EveryListenerReceivesInOrder ==
    [][/\ (EventStep /\ last'.emitted = 1) => last'.received = listeners
       /\ alive' => /\ Len(listeners') >= Len(listeners)
                    /\ SubSeq(listeners', 1, Len(listeners)) = listeners]_vars

\* C13: when a listener panics during a dispatch, the panic does not leave
\* the event handler and the listeners registered after it still receive the
\* event.
C13_ListenerPanicIsSwallowed ==
    [][(/\ EventStep
        /\ last'.emitted = 1
        /\ \E i \in DOMAIN listeners : listeners[i] = "panicker")
          => /\ ~last'.panicked
             /\ last'.received = listeners]_vars

\* C14: when a listener registers another listener during a dispatch, the
\* registration succeeds, and the new listener is not handed the event being
\* dispatched.
C14_RegistrationDuringDispatchSucceeds ==
    [][(/\ EventStep
        /\ last'.emitted = 1
        /\ \E i \in DOMAIN last'.received : last'.received[i] = "registrar")
          => /\ ~last'.panicked
             /\ listeners' = Append(listeners, "late")
             /\ \A i \in DOMAIN last'.received : last'.received[i] /= "late"]_vars

\* the controller method the handler bound to an event name calls
MethodOf(type) ==
    CASE type \in DownTypes -> "on_pointer_down"
      [] type \in MoveTypes -> "on_pointer_move"
      [] type \in UpTypes -> "on_pointer_up"
      [] type = "wheel" -> "on_scroll"
      [] OTHER -> "none"

RemoveStep(i) == removes' = Append(removes, i)

\* C16: the first remove() on a binding asks the host once to remove the
\* callback, which either leaves the SVG root or, if the host fails, stays
\* with one warning logged, and in both cases the binding is unregistered
\* afterwards; a further remove() on it asks the host nothing and changes
\* neither the bindings nor the host's callbacks nor the console.
C16_RemoveIsIdempotent ==
    [][\A i \in DOMAIN event_listeners :
          RemoveStep(i) =>
             /\ event_listeners' = [event_listeners EXCEPT ![i].closure = "None"]
             /\ IF event_listeners[i].closure = "Some"
                THEN /\ removals' = removals + 1
                     /\ \/ /\ target' = target \ {event_listeners[i].type}
                           /\ remove_warnings' = remove_warnings
                        \/ /\ target' = target
                           /\ remove_warnings' = remove_warnings + 1
                ELSE /\ removals' = removals
                     /\ target' = target
                     /\ remove_warnings' = remove_warnings
                     /\ event_listeners' = event_listeners
             /\ UNCHANGED <<drop_errors, add_errors, controller, listeners, alive>>]_vars

\* remove() was called twice on the pointerdown binding: one host call, the
\* callback is gone from the SVG root, and a press before it had armed a drag
C16_Witness ==
    /\ Len(removes) = 2
    /\ removes[1] = removes[2]
    /\ removals = 1
    /\ remove_warnings = 0
    /\ alive
    /\ event_listeners[removes[1]] = [type |-> "pointerdown", closure |-> "None"]
    /\ "pointerdown" \notin target
    /\ is_pointer_down

\* C17: right after attach, before any event, the viewBox of the SVG root is
\* (0, 0, 200, 200), whatever the SVG carried before.
C17_ViewBoxSetAtAttach ==
    (nEvents = 0 /\ owner) => view_box = SvgRect(0, 0, 200, 200)

\* C18: a handled wheel event with delta 0 leaves x, y, width and height of the
\* viewBox exactly as they were.
C18_ZeroWheelKeepsViewBox ==
    [][(/\ Handled
        /\ last'.type = "wheel"
        /\ wheels' = Append(wheels, 0))
          => /\ view_box'.x = view_box.x
             /\ view_box'.y = view_box.y
             /\ view_box'.width = view_box.width
             /\ view_box'.height = view_box.height]_vars

\* a wheel event with delta 0 was handled after one that zoomed, and the
\* ViewUpdate went out
C18_Witness ==
    /\ Len(wheels) = 2
    /\ wheels[1] /= 0
    /\ wheels[2] = 0
    /\ last.type = "wheel"
    /\ last.emitted = 1
    /\ view_box /= initial_view_box

\* the event names of the controller's bindings
BoundNames == {event_listeners[i].type : i \in DOMAIN event_listeners}

\* C19: the bound event names are either exactly pointerdown, pointermove,
\* pointerup, pointerleave and wheel, or exactly mousedown, mousemove, mouseup,
\* mouseleave, touchstart, touchmove, touchend and wheel; the controller holds
\* exactly one binding for each, the host has callbacks for no other name, and
\* the bindings never change after attach.
C19_BoundNamesFollowProbe ==
    /\ [](/\ BoundNames \in
               {{"pointerdown", "pointermove", "pointerup", "pointerleave", "wheel"},
                {"mousedown", "mousemove", "mouseup", "mouseleave",
                 "touchstart", "touchmove", "touchend", "wheel"}}
          /\ Len(event_listeners) = Cardinality(BoundNames)
          /\ target \subseteq BoundNames)
    /\ [][event_listeners' = event_listeners]_vars

\* on a host without pointer events a touch move was handled while dragging
C19_Witness ==
    /\ "touchstart" \in target
    /\ "mousedown" \in target
    /\ "pointerdown" \notin BoundNames
    /\ last.type = "touchmove"
    /\ last.emitted = 1

\* C20: a handled move or wheel event changes neither is_pointer_down nor
\* pointer_origin; a move changes neither the width nor the height of the
\* viewBox; press, release and leave do not change the viewBox.
C20_HandlersTouchOnlyTheirFields ==
    [][Handled =>
          /\ last'.type \in MoveTypes \cup {"wheel"} =>
                UNCHANGED <<is_pointer_down, pointer_origin>>
          /\ (last'.type \in MoveTypes /\ view_box /= None) =>
                /\ view_box' /= None
                /\ view_box'.width = view_box.width
                /\ view_box'.height = view_box.height
          /\ last'.type \in DownTypes \cup UpTypes => view_box' = view_box]_vars

\* a drag move panned the viewBox with the drag still armed at the press point
C20_Witness ==
    /\ drag /= None
    /\ Len(drag.moves) = 1
    /\ drag.moves[1] /= drag.p0
    /\ is_pointer_down
    /\ pointer_origin = screen_to_user(drag.ctm, drag.p0)
    /\ view_box /= drag.start

\* this step drops the controller and with it its bindings
DropStep == alive /\ ~alive'

\* the bindings on which remove() was never called
NeverRemoved ==
    {i \in DOMAIN event_listeners : \A k \in DOMAIN removes : removes[k] /= i}

\* C21: when the bindings are dropped, the drop completes, one error is
\* logged for each binding on which remove() was never called, and none for a
\* binding dropped after remove().
C21_DropLogsIffNeverRemoved ==
    [][DropStep =>
          /\ drop_errors' = drop_errors + Cardinality(NeverRemoved)
          /\ event_listeners' = <<>>
          /\ UNCHANGED <<target, remove_warnings, removals, add_errors, controller>>]_vars

\* the controller was dropped after remove() on two of its five bindings:
\* three errors were logged
C21_Witness ==
    /\ ~alive
    /\ Len(removes) = 2
    /\ removes[1] /= removes[2]
    /\ drop_errors = 3

\* the positions a press or move handler can pass to the controller
HandlerPositions == Positions \cup {touch_position(touches) : touches \in TouchLists}

\* C22: a press handled while the controller is dragging leaves it dragging.
\* If the transform of the press succeeds, pointer_origin becomes the press
\* point in user space (the point of the drag log where the press started
\* one); if it fails, pointer_origin stays as it was.  A release or leave
\* handled in any state returns the controller to idle.
C22_PressWhileDragging ==
    [][Handled =>
          /\ (last'.type \in DownTypes /\ is_pointer_down) =>
                /\ is_pointer_down'
                /\ IF CtmUsable(ctm)
                   THEN /\ \E position \in HandlerPositions :
                              pointer_origin' = screen_to_user(ctm, position)
                        /\ view_box /= None =>
                              /\ drag' /= None
                              /\ drag'.moves = <<>>
                              /\ pointer_origin' = screen_to_user(ctm, drag'.p0)
                   ELSE pointer_origin' = pointer_origin
          /\ last'.type \in UpTypes => ~is_pointer_down']_vars

\* on a host without pointer events: after a press and a move that panned, a
\* second press (touchstart with no touches, so at (0, 0)) was handled in the
\* same gesture and moved the drag origin
C22_Witness ==
    /\ nEvents = 3
    /\ nCtmChanges = 0
    /\ wheels = <<>>
    /\ view_box /= initial_view_box
    /\ "mousedown" \in target
    /\ last.type = "touchstart"
    /\ is_pointer_down
    /\ drag.p0 = Point2D_new(Zero, Zero)
    /\ drag.moves = <<>>
    /\ pointer_origin = Point2D_new(Zero, Zero)

\* C23: a move handled while dragging whose transform fails, or for which
\* the viewBox value is unavailable, calls prevent_default, leaves the viewBox
\* as it was, dispatches no ViewUpdate and leaves is_pointer_down true and
\* pointer_origin unchanged; a move handled while dragging with a working
\* transform and a viewBox value pans by the distance from pointer_origin.
C23_FailedMoveKeepsDrag ==
    [][(Handled /\ last'.type \in MoveTypes /\ is_pointer_down) =>
          /\ last'.prevented
          /\ is_pointer_down'
          /\ pointer_origin' = pointer_origin
          /\ IF CtmUsable(ctm) /\ view_box /= None
             THEN /\ last'.emitted = 1
                  /\ \E position \in HandlerPositions :
                        LET point == screen_to_user(ctm, position)
                        IN  view_box' =
                              [view_box EXCEPT
                                 !.x = FSub(@, FSub(point.x, pointer_origin.x)),
                                 !.y = FSub(@, FSub(point.y, pointer_origin.y))]
             ELSE /\ last'.emitted = 0
                  /\ view_box' = view_box]_vars

\* a move was handled while dragging after the screen CTM became unusable
C23_Witness ==
    /\ last.type \in MoveTypes
    /\ last.ran = "on_pointer_move"
    /\ last.prevented
    /\ last.emitted = 0
    /\ is_pointer_down
    /\ ~CtmUsable(ctm)
    /\ view_box /= None
    /\ view_box = initial_view_box

\* the wheel delta is above -1 / ZOOM_FACTOR
AboveLimit(d) == FLess(FNeg(FDiv(Num(1), ZOOM_FACTOR)), Num(d))

Positive(r) == FLess(Zero, r.width) /\ FLess(Zero, r.height)

\* C24: after any press, move, release and wheel events the viewBox has the
\* width : height ratio it had at attach; if it was positive at attach and
\* every wheel delta handled was above -1 / ZOOM_FACTOR, its width and height
\* are positive; and a wheel event with a delta at or below -1 / ZOOM_FACTOR
\* takes a positive width and height to zero or below.
C24_RatioKeptAndSizePositive ==
    /\ [](/\ FMul(view_box.width, initial_view_box.height)
               = FMul(view_box.height, initial_view_box.width)
          /\ (/\ Positive(initial_view_box)
              /\ \A k \in DOMAIN wheels : AboveLimit(wheels[k]))
                => Positive(view_box))
    /\ [][\A d \in ZoomDeltas :
            (/\ Handled
             /\ wheels' = Append(wheels, d)
             /\ ~AboveLimit(d)
             /\ Positive(view_box))
               => /\ FLeq(view_box'.width, Zero)
                  /\ FLeq(view_box'.height, Zero)]_vars

\* during a drag that had panned by (-20, 10), one wheel event below the
\* limit made the width and the height negative
C24_Witness ==
    /\ nEvents = 3
    /\ wheels = <<-400>>
    /\ last.type = "wheel"
    /\ is_pointer_down
    /\ initial_view_box = SvgRect(10, 20, 400, 200)
    /\ view_box = SvgRect(230, 150, -80, -40)

====
